---------------------------- MODULE Spec2Model ----------------------------
(***************************************************************************)
(* A model of the Bulkie class (src/unnamed/part_001, with the step tables *)
(* of src/unnamed/part_000): one instance, its requirement fields, its     *)
(* output cache and its execution-time list, driven by calls of its public *)
(* methods.  Every vendor SDK call is an await point: a call runs up to    *)
(* its first await in one step, and each settlement of the awaited promise *)
(* runs the continuation up to the next await or to the end of _run.       *)
(***************************************************************************)
EXTENDS Integers, Sequences, FiniteSets, TLC

\* ------------------------------------------------------------------ bounds
MaxCalls == 3
MaxInflight == 2
MaxTime == 1

\* ------------------------------------------------------- names and tables
FN == {"connectToLitNodeClient", "connectToLitContracts", "mintPKP",
       "mintCreditsNFT", "createCreditsDelegationToken", "createAccessToken",
       "grantAuthMethodToUsePKP", "grantIPFSCIDtoUsePKP", "getPkps", "executeJs"}

\* The keys of STEP: the step descriptions that name a function.
STEP == {"connectToLitContracts", "mintPKP", "mintCreditsNFT",
         "grantAuthMethodToUsePKP", "grantIPFSCIDtoUsePKP", "createAccessToken",
         "createCreditsDelegationToken", "getPkps", "executeJs"}

\* The methods the Bulkie class declares.
BulkieMethods == {"getOutput", "getAllOutputs", "getPkps", "getTotalExecutionTime",
                  "connectToLitNodeClient", "connectToLitContracts", "mintPKP",
                  "mintCreditsNFT", "createCreditsDelegationToken",
                  "createAccessToken", "grantAuthMethodToUsePKP",
                  "grantIPFSCIDtoUsePKP", "runJs"}

\* The first argument each method hands to _run.
OpName(fn) ==
  CASE fn = "connectToLitNodeClient"       -> "LitNodeClient connection"
    [] fn = "connectToLitContracts"        -> "LitContracts connection"
    [] fn = "mintPKP"                      -> "Mint PKP"
    [] fn = "mintCreditsNFT"               -> "Mint Credits Token"
    [] fn = "createCreditsDelegationToken" -> "Create Credits Delegation Token"
    [] fn = "createAccessToken"            -> "Create Access Token"
    [] fn = "grantAuthMethodToUsePKP"      -> "Grant Auth Method"
    [] fn = "grantIPFSCIDtoUsePKP"         -> "Grant IPFS CID"
    [] fn = "getPkps"                      -> "Get PKPs"

\* The last argument each method hands to _run, reduced to the entries that
\* come from STEP (the UNAVAILABLE_STEP tip of mintPKP names no function).
NextSteps(fn) ==
  CASE fn = "connectToLitNodeClient"       -> {"connectToLitContracts"}
    [] fn = "connectToLitContracts"        -> {"mintPKP", "getPkps", "mintCreditsNFT"}
    [] fn = "mintPKP"                      -> {"grantAuthMethodToUsePKP",
                                               "grantIPFSCIDtoUsePKP", "mintCreditsNFT"}
    [] fn = "mintCreditsNFT"               -> {"createCreditsDelegationToken"}
    [] fn = "createCreditsDelegationToken" -> {"createAccessToken"}
    [] fn = "createAccessToken"            -> {"executeJs"}
    [] fn = "grantAuthMethodToUsePKP"      -> {"grantIPFSCIDtoUsePKP"}
    [] fn = "grantIPFSCIDtoUsePKP"         -> {"createAccessToken"}
    [] fn = "getPkps"                      -> {}

\* ------------------------------------------------------------- messages
\* (the source puts a cross-mark symbol and a space before the four
\* requirement messages; it is left out of the strings here)
NetworkRequired == "this.network is required"
LitNodeClientRequired == "LitNodeClient is required"
LitContractsRequired == "LitContracts is required"
SignerRequired == "Signer is required"
CreditsArgsRequired == "requestsPerKilosecond and daysUntilUTCMidnightExpiration are required"
NotSupportedYet == "Native auth and EOA are not supported yet"
CodeOrIpfsCid == "Either code or ipfsCid must be provided"
NotBoth == "Only one of code or ipfsCid should be provided, not both"
JsParamsRequired == "jsParams is required"
PkpPublicKeyRequired == "pkpPublicKey is required"
ResourcesRequired == "resources is required"
CreditsDelegationTokenRequired == "creditsDelegationToken is required"
\* what the runtime raises for a method read off an undefined field
UndefinedRead(method) == "Cannot read properties of undefined (reading '" \o method \o "')"
\* the message of a rejected vendor SDK promise
SdkError == "sdk call failed"

ResourceTypes == {"pkp-signing", "lit-action-execution", "rate-limit-increase-auth",
                  "access-control-condition-decryption",
                  "access-control-condition-signing"}
ResourceNotSupported(type) == "Resource type " \o type \o " is not supported"

\* _run's catch: throw new Error(`Error in ${opName}: ${e.message}`)
RunError(opName, message) == "Error in " \o opName \o ": " \o message

\* mintPKP's inner catch: throw new Error(`Error funding PKP: ${e}`)
FundingError(message) == "Error funding PKP: Error: " \o message

\* --------------------------------------------------------------- values
\* An optional string is <<>> (absent) or <<s>>.
Undefined == [kind |-> "undefined"]
Absent == <<>>
Truthy(opt) == opt # <<>> /\ opt[1] # ""

ClientRef(id) == [kind |-> "client", id |-> id]
PkpOutput(r) == [kind |-> "pkp", tokenId |-> [hex |-> r, decimal |-> r],
                 publicKey |-> <<"0x", r>>, ethAddress |-> r, tx |-> r]
CreditsOutput(r) == [kind |-> "capacityTokenIdStr", res |-> r]
AuthSigOutput(r) == [kind |-> "capacityDelegationAuthSig", res |-> r]
SessionSigsOutput(r) == [kind |-> "sessionSigs", res |-> r]
TxOutput(r) == [kind |-> "tx", hash |-> r, explorer |-> <<"tx/", r>>]
PkpsOutput(r) == [kind |-> "pkps", res |-> r]

\* ---------------------------------------------------------------- state
VARIABLES
  signer,          \* this.signer is set
  litNodeClient,   \* this.litNodeClient: 0 (undefined) or the id of a client object
  litContracts,    \* this.litContracts: 0 (undefined) or the id of a client object
  connected,       \* the client objects whose connect() has resolved
  outputs,         \* this.outputs: the Map, as a function from keys to values
  executionTimes,  \* this.executionTimes
  now,             \* what Date.now() returns
  inflight,        \* the calls suspended at an await
  nCalls,          \* calls made so far; the n-th call has id n
  lastResult,      \* history: how the most recently settled call ended
  sdk,             \* history: the most recent vendor SDK invocation
  lastNoId,        \* history: per step, the output of the latest successful call given no outputId
  lastFalsyId,     \* history: the same, counting an empty-string outputId as none
  nOkRun           \* history: the calls that returned from _run

vars == <<signer, litNodeClient, litContracts, connected, outputs, executionTimes,
          now, inflight, nCalls, lastResult, sdk, lastNoId, lastFalsyId, nOkRun>>

fields == <<signer, litNodeClient, litContracts, connected>>
history == <<lastNoId, lastFalsyId>>

StoringFns == FN \ {"getPkps", "executeJs"}


\* ------------------------------------------------------ the output cache
\* (two slips of the key: the outputId ignored; its text left out)
OutputKeyFnOnly(fnName, outputId) == fnName
OutputKeyIdDropped(fnName, outputId) ==
  IF Truthy(outputId) THEN fnName \o ":" ELSE fnName

\* const key = outputId ? `${fnName}:${outputId}` : fnName;
OutputKey(fnName, outputId) ==
  IF Truthy(outputId) THEN fnName \o ":" \o outputId[1] ELSE fnName

\* _setOutput: this.outputs.set(key, output)
SetOutput(outs, fnName, output, outputId) ==
  [k \in DOMAIN outs \cup {OutputKey(fnName, outputId)} |->
     IF k = OutputKey(fnName, outputId) THEN output ELSE outs[k]]

\* Map.prototype.get
MapGet(outs, key) == IF key \in DOMAIN outs THEN outs[key] ELSE Undefined

\* getOutput: this.outputs.get(key)
GetOutput(fnName, outputId) == MapGet(outputs, OutputKey(fnName, outputId))

\* getTotalExecutionTime().ms: this.executionTimes.reduce((a, b) => a + b, 0)
RECURSIVE Reduce(_)
Reduce(times) == IF times = <<>> THEN 0 ELSE Reduce(Tail(times)) + Head(times)

GetTotalExecutionTimeMs == Reduce(executionTimes)

\* ------------------------------------------------- requirement checks
\* (a slip of the switch: the signer requirement of the minting and getter
\* cases left out)
RequirementsWithoutSigner(fnName) ==
  CASE fnName \in {"connectToLitNodeClient", "connectToLitContracts"} -> <<"network">>
    [] fnName \in {"mintPKP", "mintCreditsNFT", "getPkps"} -> <<"litContracts">>
    [] fnName = "grantAuthMethodToUsePKP" -> <<"litContracts", "signer", "litNodeClient">>
    [] fnName = "createAccessToken" -> <<"litNodeClient">>
    [] OTHER -> <<>>

\* The switch of _checkRequirements, as the requirements each case runs, in
\* order.  The grantAuthMethodToUsePKP case has no break and runs into the
\* createAccessToken case; every other name takes the empty default.
Requirements(fnName) ==
  CASE fnName \in {"connectToLitNodeClient", "connectToLitContracts"} -> <<"network">>
    [] fnName \in {"mintPKP", "mintCreditsNFT", "getPkps"} -> <<"litContracts", "signer">>
    [] fnName = "grantAuthMethodToUsePKP" -> <<"litContracts", "signer", "litNodeClient">>
    [] fnName = "createAccessToken" -> <<"litNodeClient">>
    [] OTHER -> <<>>

\* The `require` table: whether the requirement throws, and with what.
\* The constructor refuses an empty network, so this.network is always set.
Missing(req) ==
  CASE req = "network"       -> FALSE
    [] req = "litNodeClient" -> litNodeClient = 0
    [] req = "litContracts"  -> litContracts = 0
    [] req = "signer"        -> ~signer

RequireMessage(req) ==
  CASE req = "network"       -> NetworkRequired
    [] req = "litNodeClient" -> LitNodeClientRequired
    [] req = "litContracts"  -> LitContractsRequired
    [] req = "signer"        -> SignerRequired

\* _checkRequirements(fnName): "" when it returns, else the message it throws.
CheckRequirements(fnName) ==
  LET reqs == Requirements(fnName)
      bad == {i \in DOMAIN reqs : Missing(reqs[i])}
  IN IF bad = {} THEN ""
     ELSE RequireMessage(reqs[CHOOSE i \in bad : \A j \in bad : i <= j])

\* ------------------------------------------------------ argument checks
\* mintCreditsNFT, before _run
ValidateCredits(p) ==
  IF p.requestsPerKilosecond = 0 \/ p.daysUntilUTCMidnightExpiration = 0
  THEN CreditsArgsRequired ELSE ""

\* createAccessToken, before _run: the checks of the parameters, then the map
\* of the resources to ability requests, whose default case throws.
ValidateAccessToken(p) ==
  LET unsupported == {i \in DOMAIN p.resources : p.resources[i] \notin ResourceTypes}
  IN IF p.type \in {"eoa", "native_auth"} THEN NotSupportedYet
     ELSE IF ~Truthy(p.code) /\ ~Truthy(p.ipfsCid) THEN CodeOrIpfsCid
     ELSE IF Truthy(p.code) /\ Truthy(p.ipfsCid) THEN NotBoth
     ELSE IF ~p.jsParams THEN JsParamsRequired
     ELSE IF p.pkpPublicKey = "" THEN PkpPublicKeyRequired
     ELSE IF Len(p.resources) = 0 THEN ResourcesRequired
     ELSE IF unsupported # {}
          THEN ResourceNotSupported(
                 p.resources[CHOOSE i \in unsupported : \A j \in unsupported : i <= j])
     ELSE ""

\* createAccessToken's action, before its await
AccessTokenActionCheck(p) ==
  IF ~p.creditsDelegationToken THEN CreditsDelegationTokenRequired
  ELSE IF ~Truthy(p.code) /\ ~Truthy(p.ipfsCid) THEN CodeOrIpfsCid
  ELSE ""

\* ---------------------------------------------------------------- inputs
OutputIds == {Absent, <<"">>, <<"a">>, <<"b">>}

NoParams == [outputId |-> Absent, selfFund |-> FALSE,
             requestsPerKilosecond |-> 0, daysUntilUTCMidnightExpiration |-> 0,
             type |-> "custom_auth", code |-> Absent, ipfsCid |-> Absent,
             jsParams |-> FALSE, pkpPublicKey |-> "", resources |-> <<>>,
             creditsDelegationToken |-> FALSE]

WithOutputIds(p) == {[p EXCEPT !.outputId = o] : o \in OutputIds}

CreditsParams == [NoParams EXCEPT !.requestsPerKilosecond = 200,
                                  !.daysUntilUTCMidnightExpiration = 2]

\* a custom_auth request with code, as the dev workflow makes it
AccessTokenParams == [NoParams EXCEPT !.code = <<"code">>, !.jsParams = TRUE,
                                      !.pkpPublicKey = "0xpk",
                                      !.resources = <<"pkp-signing", "lit-action-execution">>]

Params(fn) ==
  CASE fn = "mintPKP" ->
         WithOutputIds(NoParams) \cup WithOutputIds([NoParams EXCEPT !.selfFund = TRUE])
    [] fn = "mintCreditsNFT" ->
         WithOutputIds(CreditsParams)
         \cup {[CreditsParams EXCEPT !.requestsPerKilosecond = 0],
               [CreditsParams EXCEPT !.daysUntilUTCMidnightExpiration = 0]}
    [] fn = "createAccessToken" ->
         WithOutputIds([AccessTokenParams EXCEPT !.creditsDelegationToken = TRUE])
         \cup {AccessTokenParams,
               [AccessTokenParams EXCEPT !.code = Absent, !.ipfsCid = <<"QmCid">>],
               [AccessTokenParams EXCEPT !.code = Absent, !.ipfsCid = <<"QmCid">>,
                                         !.creditsDelegationToken = TRUE],
               [AccessTokenParams EXCEPT !.type = "eoa"],
               [AccessTokenParams EXCEPT !.type = "native_auth"],
               [AccessTokenParams EXCEPT !.code = Absent],
               [AccessTokenParams EXCEPT !.ipfsCid = <<"QmCid">>],
               [AccessTokenParams EXCEPT !.jsParams = FALSE],
               [AccessTokenParams EXCEPT !.pkpPublicKey = ""],
               [AccessTokenParams EXCEPT !.resources = <<>>],
               [AccessTokenParams EXCEPT !.resources = <<"pkp-signing", "wallet">>]}
    [] fn = "getPkps" -> {NoParams}
    [] OTHER -> WithOutputIds(NoParams)

\* ------------------------------------------------------------------ Init
NoResult == [id |-> 0, fn |-> "", p |-> NoParams, status |-> "none",
             message |-> "", cause |-> "", output |-> Undefined]

NoSdk == [n |-> 0, method |-> "", on |-> "", target |-> 0, ready |-> TRUE,
          caps |-> FALSE, by |-> 0]

\* The state after `new Bulkie({network, signer?})`.
Init ==
  /\ signer \in BOOLEAN
  /\ litNodeClient = 0
  /\ litContracts = 0
  /\ connected = {}
  /\ outputs = [k \in {} |-> Undefined]
  /\ executionTimes = <<>>
  /\ now = 0
  /\ inflight = {}
  /\ nCalls = 0
  /\ lastResult = NoResult
  /\ sdk = NoSdk
  /\ lastNoId = [f \in StoringFns |-> Undefined]
  /\ lastFalsyId = [f \in StoringFns |-> Undefined]
  /\ nOkRun = 0


\* ------------------------------------------------------- steps of a call
\* A call: its id, step name, arguments, _run's startTime, the await it is
\* suspended at and the SDK result it holds in a local.
\* What a vendor SDK call resolves with (a transaction, a token id, a
\* signature) is new with every call: it is named after the call.
SdkResult(c) == c.id

CallRecord(id, fn, p) == [id |-> id, fn |-> fn, p |-> p, start |-> now, pc |-> "", res |-> 0]

\* A vendor SDK method is invoked: on the signer, or on the client object a
\* field holds at that moment.
Invoke(method, on, target, caps, by) ==
  sdk' = [n |-> sdk.n + 1, method |-> method, on |-> on, target |-> target,
          ready |-> (on = "signer" \/ target \in connected), caps |-> caps, by |-> by]

\* The call suspends at an await; nothing of _run's bookkeeping moves.
Quiet == UNCHANGED <<outputs, executionTimes, lastResult, nOkRun, lastNoId, lastFalsyId>>

\* What _run does to this.executionTimes when the action returned ...
TimesOnSuccess(times, duration) == Append(times, duration)

\* (a slip of _run: the duration pushed on the failing path too)
TimesOnFailureWithPush(times, duration) == Append(times, duration)

\* ... and when the requirement check or the action threw.
TimesOnFailure(times, duration) == times

\* An error raised before _run is entered: it leaves the method as it is,
\* thrown to the caller by a plain method, a rejected promise from an async one.
Throws(c, status, message) ==
  /\ lastResult' = [id |-> c.id, fn |-> c.fn, p |-> c.p, status |-> status,
                    message |-> message, cause |-> message, output |-> Undefined]
  /\ UNCHANGED <<outputs, executionTimes, nOkRun, lastNoId, lastFalsyId>>

\* _run's catch: the error of the requirement check or of the action is
\* rethrown with the operation's name before it.
RunFails(c, cause) ==
  /\ lastResult' = [id |-> c.id, fn |-> c.fn, p |-> c.p, status |-> "rejected",
                    message |-> RunError(OpName(c.fn), cause), cause |-> cause,
                    output |-> Undefined]
  /\ executionTimes' = TimesOnFailure(executionTimes, now - c.start)
  /\ UNCHANGED <<outputs, nOkRun, lastNoId, lastFalsyId>>

\* The action's last statements and _run's return: _setOutput (for the steps
\* that store), then the duration is pushed and the result returned.
Returns(c, out, stores) ==
  /\ outputs' = IF stores THEN SetOutput(outputs, c.fn, out, c.p.outputId) ELSE outputs
  /\ lastNoId' = IF stores /\ c.p.outputId = Absent
                 THEN [lastNoId EXCEPT ![c.fn] = out] ELSE lastNoId
  /\ lastFalsyId' = IF stores /\ ~Truthy(c.p.outputId)
                    THEN [lastFalsyId EXCEPT ![c.fn] = out] ELSE lastFalsyId
  /\ executionTimes' = TimesOnSuccess(executionTimes, now - c.start)
  /\ nOkRun' = nOkRun + 1
  /\ lastResult' = [id |-> c.id, fn |-> c.fn, p |-> c.p, status |-> "resolved",
                    message |-> "", cause |-> "", output |-> out]

Suspend(c, pc, res) == inflight' = (inflight \ {c}) \cup {[c EXCEPT !.pc = pc, !.res = res]}

\* Date.now() moves on.
Tick ==
  /\ now < MaxTime
  /\ now' = now + 1
  /\ UNCHANGED <<fields, outputs, executionTimes, inflight, nCalls, lastResult, sdk,
                 lastNoId, lastFalsyId, nOkRun>>

\* ------------------------------------------------ connectToLitNodeClient
connectToLitNodeClient(p) ==
  LET c == CallRecord(nCalls + 1, "connectToLitNodeClient", p) IN
  /\ nCalls' = c.id
  /\ IF CheckRequirements(c.fn) # ""
     THEN /\ RunFails(c, CheckRequirements(c.fn))
          /\ UNCHANGED <<fields, inflight, sdk>>
     ELSE /\ litNodeClient' = c.id          \* new LitNodeClient(...)
          /\ Invoke("connect", "litNodeClient", c.id, FALSE, c.id)
          /\ Suspend(c, "connect", 0)
          /\ Quiet
          /\ UNCHANGED <<signer, litContracts, connected>>
  /\ UNCHANGED now

\* await this.litNodeClient.connect() settles; the output stored is the
\* object the field holds now.
NodeClientConnectSettles(o, ok) ==
  /\ o \in inflight /\ o.fn = "connectToLitNodeClient" /\ o.pc = "connect"
  /\ inflight' = inflight \ {o}
  /\ IF ok
     THEN /\ connected' = connected \cup {o.id}
          /\ Returns(o, ClientRef(litNodeClient), TRUE)
     ELSE /\ connected' = connected
          /\ RunFails(o, SdkError)
  /\ UNCHANGED <<signer, litNodeClient, litContracts, now, nCalls, sdk>>

\* ------------------------------------------------- connectToLitContracts
\* With a signer the action first awaits signer.getAddress() (and getBalance)
\* for its debug lines; without one it builds the client at once.
connectToLitContracts(p) ==
  LET c == CallRecord(nCalls + 1, "connectToLitContracts", p) IN
  /\ nCalls' = c.id
  /\ IF CheckRequirements(c.fn) # ""
     THEN /\ RunFails(c, CheckRequirements(c.fn))
          /\ UNCHANGED <<fields, inflight, sdk>>
     ELSE IF signer
     THEN /\ Invoke("getAddress", "signer", 0, FALSE, c.id)
          /\ Suspend(c, "signerInfo", 0)
          /\ Quiet
          /\ UNCHANGED fields
     ELSE /\ litContracts' = c.id           \* new LitContracts(...)
          /\ Invoke("connect", "litContracts", c.id, FALSE, c.id)
          /\ Suspend(c, "connect", 0)
          /\ Quiet
          /\ UNCHANGED <<signer, litNodeClient, connected>>
  /\ UNCHANGED now

\* The signer's address and balance settle; an error is caught and logged.
\* Then the client is built and its connect() awaited.
ContractsSignerInfoSettles(o) ==
  /\ o \in inflight /\ o.fn = "connectToLitContracts" /\ o.pc = "signerInfo"
  /\ litContracts' = o.id                   \* new LitContracts(...)
  /\ Invoke("connect", "litContracts", o.id, FALSE, o.id)
  /\ Suspend(o, "connect", 0)
  /\ Quiet
  /\ UNCHANGED <<signer, litNodeClient, connected, now, nCalls>>

ContractsConnectSettles(o, ok) ==
  /\ o \in inflight /\ o.fn = "connectToLitContracts" /\ o.pc = "connect"
  /\ inflight' = inflight \ {o}
  /\ IF ok
     THEN /\ connected' = connected \cup {o.id}
          /\ Returns(o, ClientRef(litContracts), TRUE)
     ELSE /\ connected' = connected
          /\ RunFails(o, SdkError)
  /\ UNCHANGED <<signer, litNodeClient, litContracts, now, nCalls, sdk>>

\* ---------------------------------------------------------------- mintPKP
mintPKP(p) ==
  LET c == CallRecord(nCalls + 1, "mintPKP", p) IN
  /\ nCalls' = c.id
  /\ IF CheckRequirements(c.fn) # ""
     THEN /\ RunFails(c, CheckRequirements(c.fn))
          /\ UNCHANGED <<inflight, sdk>>
     ELSE /\ Invoke("pkpNftContractUtils.write.mint", "litContracts", litContracts, FALSE, c.id)
          /\ Suspend(c, "mint", 0)
          /\ Quiet
  /\ UNCHANGED <<fields, now>>

\* The mint settles.  With selfFund the PKP is funded next (sendTransaction,
\* its wait() and the balance reads: one await here); else the output is stored.
MintSettles(o, ok) ==
  /\ o \in inflight /\ o.fn = "mintPKP" /\ o.pc = "mint"
  /\ IF ~ok
     THEN /\ inflight' = inflight \ {o}
          /\ RunFails(o, SdkError)
          /\ UNCHANGED sdk
     ELSE IF o.p.selfFund
     THEN /\ Invoke("sendTransaction", "signer", 0, FALSE, o.id)
          /\ Suspend(o, "fund", SdkResult(o))
          /\ Quiet
     ELSE /\ inflight' = inflight \ {o}
          /\ Returns(o, PkpOutput(SdkResult(o)), TRUE)
          /\ UNCHANGED sdk
  /\ UNCHANGED <<fields, now, nCalls>>

FundSettles(o, ok) ==
  /\ o \in inflight /\ o.fn = "mintPKP" /\ o.pc = "fund"
  /\ inflight' = inflight \ {o}
  /\ IF ok THEN Returns(o, PkpOutput(o.res), TRUE)
           ELSE RunFails(o, FundingError(SdkError))
  /\ UNCHANGED <<fields, now, nCalls, sdk>>

\* --------------------------------------------------------- mintCreditsNFT
mintCreditsNFT(p) ==
  LET c == CallRecord(nCalls + 1, "mintCreditsNFT", p) IN
  /\ nCalls' = c.id
  /\ IF ValidateCredits(p) # ""
     THEN /\ Throws(c, "rejected", ValidateCredits(p))
          /\ UNCHANGED <<inflight, sdk>>
     ELSE IF CheckRequirements(c.fn) # ""
     THEN /\ RunFails(c, CheckRequirements(c.fn))
          /\ UNCHANGED <<inflight, sdk>>
     ELSE /\ Invoke("mintCapacityCreditsNFT", "litContracts", litContracts, FALSE, c.id)
          /\ Suspend(c, "mintCapacityCreditsNFT", 0)
          /\ Quiet
  /\ UNCHANGED <<fields, now>>

MintCreditsSettles(o, ok) ==
  /\ o \in inflight /\ o.fn = "mintCreditsNFT"
  /\ inflight' = inflight \ {o}
  /\ IF ok THEN Returns(o, CreditsOutput(SdkResult(o)), TRUE) ELSE RunFails(o, SdkError)
  /\ UNCHANGED <<fields, now, nCalls, sdk>>

\* ------------------------------------------- createCreditsDelegationToken
\* No case of the requirement switch; the action checks the signer itself and
\* reads createCapacityDelegationAuthSig off this.litNodeClient.
createCreditsDelegationToken(p) ==
  LET c == CallRecord(nCalls + 1, "createCreditsDelegationToken", p) IN
  /\ nCalls' = c.id
  /\ IF CheckRequirements(c.fn) # ""
     THEN /\ RunFails(c, CheckRequirements(c.fn))
          /\ UNCHANGED <<inflight, sdk>>
     ELSE IF ~signer
     THEN /\ RunFails(c, SignerRequired)
          /\ UNCHANGED <<inflight, sdk>>
     ELSE IF litNodeClient = 0
     THEN /\ RunFails(c, UndefinedRead("createCapacityDelegationAuthSig"))
          /\ UNCHANGED <<inflight, sdk>>
     ELSE /\ Invoke("createCapacityDelegationAuthSig", "litNodeClient", litNodeClient,
                    FALSE, c.id)
          /\ Suspend(c, "createCapacityDelegationAuthSig", 0)
          /\ Quiet
  /\ UNCHANGED <<fields, now>>

DelegationTokenSettles(o, ok) ==
  /\ o \in inflight /\ o.fn = "createCreditsDelegationToken"
  /\ inflight' = inflight \ {o}
  /\ IF ok THEN Returns(o, AuthSigOutput(SdkResult(o)), TRUE) ELSE RunFails(o, SdkError)
  /\ UNCHANGED <<fields, now, nCalls, sdk>>

\* ------------------------------------------------------ createAccessToken
createAccessToken(p) ==
  LET c == CallRecord(nCalls + 1, "createAccessToken", p) IN
  /\ nCalls' = c.id
  /\ IF ValidateAccessToken(p) # ""
     THEN /\ Throws(c, "rejected", ValidateAccessToken(p))
          /\ UNCHANGED <<inflight, sdk>>
     ELSE IF CheckRequirements(c.fn) # ""
     THEN /\ RunFails(c, CheckRequirements(c.fn))
          /\ UNCHANGED <<inflight, sdk>>
     ELSE IF AccessTokenActionCheck(p) # ""
     THEN /\ RunFails(c, AccessTokenActionCheck(p))
          /\ UNCHANGED <<inflight, sdk>>
     ELSE /\ Invoke("getLitActionSessionSigs", "litNodeClient", litNodeClient,
                    p.creditsDelegationToken, c.id)
          /\ Suspend(c, "getLitActionSessionSigs", 0)
          /\ Quiet
  /\ UNCHANGED <<fields, now>>

AccessTokenSettles(o, ok) ==
  /\ o \in inflight /\ o.fn = "createAccessToken"
  /\ inflight' = inflight \ {o}
  /\ IF ok THEN Returns(o, SessionSigsOutput(SdkResult(o)), TRUE) ELSE RunFails(o, SdkError)
  /\ UNCHANGED <<fields, now, nCalls, sdk>>

\* ------------------------------------------------ grantAuthMethodToUsePKP
grantAuthMethodToUsePKP(p) ==
  LET c == CallRecord(nCalls + 1, "grantAuthMethodToUsePKP", p) IN
  /\ nCalls' = c.id
  /\ IF CheckRequirements(c.fn) # ""
     THEN /\ RunFails(c, CheckRequirements(c.fn))
          /\ UNCHANGED <<inflight, sdk>>
     ELSE /\ Invoke("addPermittedAuthMethod", "litContracts", litContracts, FALSE, c.id)
          /\ Suspend(c, "addPermittedAuthMethod", 0)
          /\ Quiet
  /\ UNCHANGED <<fields, now>>

GrantAuthMethodSettles(o, ok) ==
  /\ o \in inflight /\ o.fn = "grantAuthMethodToUsePKP"
  /\ inflight' = inflight \ {o}
  /\ IF ok THEN Returns(o, TxOutput(SdkResult(o)), TRUE) ELSE RunFails(o, SdkError)
  /\ UNCHANGED <<fields, now, nCalls, sdk>>

\* --------------------------------------------------- grantIPFSCIDtoUsePKP
\* No case of the requirement switch: addPermittedAction is read off
\* this.litContracts whatever it holds.
grantIPFSCIDtoUsePKP(p) ==
  LET c == CallRecord(nCalls + 1, "grantIPFSCIDtoUsePKP", p) IN
  /\ nCalls' = c.id
  /\ IF CheckRequirements(c.fn) # ""
     THEN /\ RunFails(c, CheckRequirements(c.fn))
          /\ UNCHANGED <<inflight, sdk>>
     ELSE IF litContracts = 0
     THEN /\ RunFails(c, UndefinedRead("addPermittedAction"))
          /\ UNCHANGED <<inflight, sdk>>
     ELSE /\ Invoke("addPermittedAction", "litContracts", litContracts, FALSE, c.id)
          /\ Suspend(c, "addPermittedAction", 0)
          /\ Quiet
  /\ UNCHANGED <<fields, now>>

GrantIpfsCidSettles(o, ok) ==
  /\ o \in inflight /\ o.fn = "grantIPFSCIDtoUsePKP"
  /\ inflight' = inflight \ {o}
  /\ IF ok THEN Returns(o, TxOutput(SdkResult(o)), TRUE) ELSE RunFails(o, SdkError)
  /\ UNCHANGED <<fields, now, nCalls, sdk>>

\* ---------------------------------------------------------------- getPkps
\* Not an async method: its own requirement check, made before _run, throws
\* to the caller.  The action stores no output.
getPkps(p) ==
  LET c == CallRecord(nCalls + 1, "getPkps", p) IN
  /\ nCalls' = c.id
  /\ IF CheckRequirements(c.fn) # ""
     THEN /\ Throws(c, "thrown", CheckRequirements(c.fn))
          /\ UNCHANGED <<inflight, sdk>>
     ELSE /\ Invoke("getAddress", "signer", 0, FALSE, c.id)
          /\ Suspend(c, "getAddress", 0)
          /\ Quiet
  /\ UNCHANGED <<fields, now>>

\* await this.signer?.getAddress() settles (an address is a non-empty
\* string); then the tokens are read through this.litContracts.
PkpsAddressSettles(o, ok) ==
  /\ o \in inflight /\ o.fn = "getPkps" /\ o.pc = "getAddress"
  /\ IF ok
     THEN /\ Invoke("pkpNftContractUtils.read.getTokensByAddress", "litContracts",
                    litContracts, FALSE, o.id)
          /\ Suspend(o, "getTokensByAddress", 0)
          /\ Quiet
     ELSE /\ inflight' = inflight \ {o}
          /\ RunFails(o, SdkError)
          /\ UNCHANGED sdk
  /\ UNCHANGED <<fields, now, nCalls>>

\* getTokensByAddress and the getPubkey reads of Promise.all settle.
PkpsTokensSettles(o, ok) ==
  /\ o \in inflight /\ o.fn = "getPkps" /\ o.pc = "getTokensByAddress"
  /\ inflight' = inflight \ {o}
  /\ IF ok THEN Returns(o, PkpsOutput(SdkResult(o)), FALSE) ELSE RunFails(o, SdkError)
  /\ UNCHANGED <<fields, now, nCalls, sdk>>

\* ------------------------------------------------------------------ Next
\* One awaited vendor SDK promise settles: it resolves (ok) or rejects.
SettleStep(Oks) ==
  \/ \E o \in inflight, ok \in Oks : NodeClientConnectSettles(o, ok)
  \/ \E o \in inflight : ContractsSignerInfoSettles(o)
  \/ \E o \in inflight, ok \in Oks : ContractsConnectSettles(o, ok)
  \/ \E o \in inflight, ok \in Oks : MintSettles(o, ok)
  \/ \E o \in inflight, ok \in Oks : FundSettles(o, ok)
  \/ \E o \in inflight, ok \in Oks : MintCreditsSettles(o, ok)
  \/ \E o \in inflight, ok \in Oks : DelegationTokenSettles(o, ok)
  \/ \E o \in inflight, ok \in Oks : AccessTokenSettles(o, ok)
  \/ \E o \in inflight, ok \in Oks : GrantAuthMethodSettles(o, ok)
  \/ \E o \in inflight, ok \in Oks : GrantIpfsCidSettles(o, ok)
  \/ \E o \in inflight, ok \in Oks : PkpsAddressSettles(o, ok)
  \/ \E o \in inflight, ok \in Oks : PkpsTokensSettles(o, ok)

\* A caller may start a call while others are suspended.
MayCall == nCalls < MaxCalls /\ Cardinality(inflight) < MaxInflight

Next ==
  \/ Tick
  \/ MayCall /\ \E p \in Params("connectToLitNodeClient") : connectToLitNodeClient(p)
  \/ MayCall /\ \E p \in Params("connectToLitContracts") : connectToLitContracts(p)
  \/ MayCall /\ \E p \in Params("mintPKP") : mintPKP(p)
  \/ MayCall /\ \E p \in Params("mintCreditsNFT") : mintCreditsNFT(p)
  \/ MayCall /\ \E p \in Params("createCreditsDelegationToken") : createCreditsDelegationToken(p)
  \/ MayCall /\ \E p \in Params("createAccessToken") : createAccessToken(p)
  \/ MayCall /\ \E p \in Params("grantAuthMethodToUsePKP") : grantAuthMethodToUsePKP(p)
  \/ MayCall /\ \E p \in Params("grantIPFSCIDtoUsePKP") : grantIPFSCIDtoUsePKP(p)
  \/ MayCall /\ \E p \in Params("getPkps") : getPkps(p)
  \/ SettleStep(BOOLEAN)

Spec == Init /\ [][Next]_vars

\* Every call is awaited before the next one is made, and the clock stands.
MayCallAwaited == nCalls < MaxCalls /\ inflight = {}

NextAwaited ==
  \/ MayCallAwaited /\ \E p \in Params("connectToLitNodeClient") : connectToLitNodeClient(p)
  \/ MayCallAwaited /\ \E p \in Params("connectToLitContracts") : connectToLitContracts(p)
  \/ MayCallAwaited /\ \E p \in Params("mintPKP") : mintPKP(p)
  \/ MayCallAwaited /\ \E p \in Params("mintCreditsNFT") : mintCreditsNFT(p)
  \/ MayCallAwaited /\ \E p \in Params("createCreditsDelegationToken") : createCreditsDelegationToken(p)
  \/ MayCallAwaited /\ \E p \in Params("createAccessToken") : createAccessToken(p)
  \/ MayCallAwaited /\ \E p \in Params("grantAuthMethodToUsePKP") : grantAuthMethodToUsePKP(p)
  \/ MayCallAwaited /\ \E p \in Params("grantIPFSCIDtoUsePKP") : grantIPFSCIDtoUsePKP(p)
  \/ MayCallAwaited /\ \E p \in Params("getPkps") : getPkps(p)
  \/ SettleStep(BOOLEAN)

SpecAwaited == Init /\ [][NextAwaited]_vars

\* Every call is awaited and the clock runs; no call names an outputId.
NoIdParams(fn) == {p \in Params(fn) : p.outputId = Absent}

NextTimed ==
  \/ Tick
  \/ MayCallAwaited /\ \E p \in NoIdParams("connectToLitNodeClient") : connectToLitNodeClient(p)
  \/ MayCallAwaited /\ \E p \in NoIdParams("connectToLitContracts") : connectToLitContracts(p)
  \/ MayCallAwaited /\ \E p \in NoIdParams("mintPKP") : mintPKP(p)
  \/ MayCallAwaited /\ \E p \in NoIdParams("mintCreditsNFT") : mintCreditsNFT(p)
  \/ MayCallAwaited /\ \E p \in NoIdParams("createCreditsDelegationToken") : createCreditsDelegationToken(p)
  \/ MayCallAwaited /\ \E p \in NoIdParams("createAccessToken") : createAccessToken(p)
  \/ MayCallAwaited /\ \E p \in NoIdParams("grantAuthMethodToUsePKP") : grantAuthMethodToUsePKP(p)
  \/ MayCallAwaited /\ \E p \in NoIdParams("grantIPFSCIDtoUsePKP") : grantIPFSCIDtoUsePKP(p)
  \/ MayCallAwaited /\ \E p \in NoIdParams("getPkps") : getPkps(p)
  \/ SettleStep(BOOLEAN)

SpecTimed == Init /\ [][NextTimed]_vars

\* ---------------------------------------------------- the dev workflow
\* src/dev.ts: an instance with a signer, and the steps of the script, each
\* awaited, with the arguments the script gives (mintCreditsToken and
\* getLoginToken there are mintCreditsNFT and createAccessToken of the class).
Workflow ==
  << [fn |-> "connectToLitNodeClient", p |-> NoParams],
     [fn |-> "connectToLitContracts", p |-> NoParams],
     [fn |-> "mintPKP", p |-> [NoParams EXCEPT !.selfFund = TRUE]],
     [fn |-> "mintCreditsNFT", p |-> CreditsParams],
     [fn |-> "grantAuthMethodToUsePKP", p |-> NoParams],
     [fn |-> "grantIPFSCIDtoUsePKP", p |-> NoParams],
     [fn |-> "createAccessToken", p |-> AccessTokenParams] >>

\* The script goes on to its next step once the awaited one resolved; a
\* rejection ends it.
WorkflowAt(fn) ==
  /\ inflight = {}
  /\ nCalls < Len(Workflow)
  /\ Workflow[nCalls + 1].fn = fn
  /\ nCalls = 0 \/ lastResult.status = "resolved"

InitWorkflow == Init /\ signer

NextWorkflow ==
  \/ Tick
  \/ WorkflowAt("connectToLitNodeClient") /\ connectToLitNodeClient(Workflow[nCalls + 1].p)
  \/ WorkflowAt("connectToLitContracts") /\ connectToLitContracts(Workflow[nCalls + 1].p)
  \/ WorkflowAt("mintPKP") /\ mintPKP(Workflow[nCalls + 1].p)
  \/ WorkflowAt("mintCreditsNFT") /\ mintCreditsNFT(Workflow[nCalls + 1].p)
  \/ WorkflowAt("grantAuthMethodToUsePKP") /\ grantAuthMethodToUsePKP(Workflow[nCalls + 1].p)
  \/ WorkflowAt("grantIPFSCIDtoUsePKP") /\ grantIPFSCIDtoUsePKP(Workflow[nCalls + 1].p)
  \/ WorkflowAt("createAccessToken") /\ createAccessToken(Workflow[nCalls + 1].p)
  \/ \E o \in inflight, ok \in BOOLEAN : NodeClientConnectSettles(o, ok)
  \/ \E o \in inflight : ContractsSignerInfoSettles(o)
  \/ \E o \in inflight, ok \in BOOLEAN : ContractsConnectSettles(o, ok)
  \/ \E o \in inflight, ok \in BOOLEAN : MintSettles(o, ok)
  \/ \E o \in inflight, ok \in BOOLEAN : FundSettles(o, ok)
  \/ \E o \in inflight, ok \in BOOLEAN : MintCreditsSettles(o, ok)
  \/ \E o \in inflight, ok \in BOOLEAN : GrantAuthMethodSettles(o, ok)
  \/ \E o \in inflight, ok \in BOOLEAN : GrantIpfsCidSettles(o, ok)

SpecWorkflow == InitWorkflow /\ [][NextWorkflow]_vars

\* =================================================================== claims
\* What a step shows of the call it makes or settles.
CallMade == nCalls' = nCalls + 1
MadeCall ==
  IF lastResult'.id = nCalls'
  THEN [fn |-> lastResult'.fn, p |-> lastResult'.p]
  ELSE LET o == CHOOSE x \in inflight' : x.id = nCalls' IN [fn |-> o.fn, p |-> o.p]
CallSettled == lastResult'.id # lastResult.id
Failed(result) == result.status \in {"rejected", "thrown"}
SdkFailures == {SdkError, FundingError(SdkError)}

\* ----------------------------------------------------------------- C1
\* C1, as stated: for every step that stores an output, getOutput(f) with no
\* outputId is the output of the latest successful call of f that was given
\* no outputId, and undefined if there was none.
C1_LastOutputWithoutId ==
  \A f \in StoringFns : GetOutput(f, Absent) = lastNoId[f]

\* C1, amended: for every step that stores an output, getOutput(f) with no
\* outputId is the output of the latest successful call of f that was given
\* no outputId or an empty one, and undefined if there was none.
C1_LastOutputWithoutTruthyId ==
  \A f \in StoringFns : GetOutput(f, Absent) = lastFalsyId[f]

\* A step was called plainly, then again under an outputId, both with success.
C1_Witness ==
  LET plain == GetOutput("mintCreditsNFT", Absent)
      named == GetOutput("mintCreditsNFT", <<"a">>)
  IN plain # Undefined /\ named # Undefined /\ plain.res < named.res

\* ----------------------------------------------------------------- C2
\* C2: every error a public operation raises reaches the caller as a rejected
\* promise whose message is 'Error in <operation name>: ' and the original
\* message.
C2_ErrorsRethrownWithPrefix ==
  Failed(lastResult) =>
    /\ lastResult.status = "rejected"
    /\ lastResult.message = "Error in " \o OpName(lastResult.fn) \o ": " \o lastResult.cause

\* ----------------------------------------------------------------- C3
RequirementChecked == {"mintPKP", "mintCreditsNFT", "getPkps"}
StoppedAtRequirement ==
  /\ lastResult'.id = nCalls'
  /\ Failed(lastResult')
  /\ lastResult'.cause = IF litContracts = 0 THEN LitContractsRequired ELSE SignerRequired
  /\ sdk' = sdk
  /\ UNCHANGED <<litContracts, litNodeClient, signer, outputs, executionTimes>>

\* C3, as stated: a call of mintPKP, mintCreditsNFT or getPkps made with no
\* contracts client set or with no signer fails with the matching requirement
\* error, invokes no vendor SDK method and leaves the clients, the signer, the
\* outputs and the execution times as they were.
C3_RequirementStopsCall ==
  [][(CallMade /\ MadeCall.fn \in RequirementChecked /\ (litContracts = 0 \/ ~signer))
       => StoppedAtRequirement]_vars

\* C3, amended: the same, for mintPKP, getPkps and a mintCreditsNFT call
\* whose two numeric arguments are given; a mintCreditsNFT call lacking one
\* fails with the arguments error instead, and it too invokes no vendor SDK
\* method and leaves that state as it was.
C3_RequirementStopsValidCall ==
  [][(CallMade /\ MadeCall.fn \in RequirementChecked /\ (litContracts = 0 \/ ~signer))
       => IF MadeCall.fn = "mintCreditsNFT" /\ ValidateCredits(MadeCall.p) # ""
          THEN /\ lastResult'.id = nCalls'
               /\ lastResult'.status = "rejected"
               /\ lastResult'.cause = CreditsArgsRequired
               /\ sdk' = sdk
               /\ UNCHANGED <<litContracts, litNodeClient, signer, outputs, executionTimes>>
          ELSE StoppedAtRequirement]_vars

\* A contracts client is set, the instance has no signer, and mintPKP was
\* stopped by the signer requirement.
C3_Witness ==
  /\ litContracts # 0 /\ ~signer
  /\ lastResult.fn = "mintPKP" /\ lastResult.cause = SignerRequired

\* ----------------------------------------------------------------- C4
\* C4: in the dev workflow, with every vendor SDK call succeeding, each step
\* resolves, and after it getOutput of that step and of the steps before it
\* is defined.
C4_WorkflowRunsThrough ==
  (lastResult.id >= 1 /\ lastResult.cause \notin SdkFailures) =>
    /\ lastResult.status = "resolved"
    /\ \A k \in 1..lastResult.id : GetOutput(Workflow[k].fn, Absent) # Undefined

\* ----------------------------------------------------------------- C5
\* What the action of a step without a requirement case needs to be set.
ActionNeeds(fn) ==
  CASE fn = "createCreditsDelegationToken" -> <<"signer", "litNodeClient">>
    [] fn = "grantIPFSCIDtoUsePKP" -> <<"litContracts">>
    [] OTHER -> <<>>

\* C5: after an operation completes, every next step it lists that names a
\* function is a method of the class, passes its requirement check, and does
\* not fail for a missing node client, contracts client or signer.
C5_NextStepsSound ==
  lastResult.status = "resolved" =>
    \A step \in NextSteps(lastResult.fn) :
      /\ step \in BulkieMethods
      /\ CheckRequirements(step) = ""
      /\ \A i \in DOMAIN ActionNeeds(step) : ~Missing(ActionNeeds(step)[i])

\* ----------------------------------------------------------------- C6
\* C6: after a successful getPkps, getOutput('getPkps') is what getPkps
\* retrieved.
C6_GetPkpsOutputCached ==
  (lastResult.fn = "getPkps" /\ lastResult.status = "resolved")
    => GetOutput("getPkps", Absent) = lastResult.output

\* ----------------------------------------------------------------- C7
KeyIds == OutputIds \cup {<<"a:b">>, <<":a">>, <<"mintPKP">>}
SameSlot(f, i, g, k) == f = g /\ (i = k \/ (~Truthy(i) /\ ~Truthy(k)))

\* C7: a successful call of step f under a non-empty outputId i makes
\* getOutput(f, i) that call's output and changes getOutput for no other
\* step or id; the keys of distinct (step, outputId) pairs differ.
C7_OutputIdsKeptApart ==
  /\ \A f \in FN, g \in FN, i \in KeyIds, k \in KeyIds :
        OutputKey(f, i) = OutputKey(g, k) => SameSlot(f, i, g, k)
  /\ [][(CallSettled /\ lastResult'.status = "resolved"
           /\ lastResult'.fn \in StoringFns /\ Truthy(lastResult'.p.outputId))
         => LET f == lastResult'.fn
                i == lastResult'.p.outputId
            IN /\ MapGet(outputs', OutputKey(f, i)) = lastResult'.output
               /\ \A g \in FN, k \in KeyIds :
                    (g # f \/ k # i)
                      => MapGet(outputs', OutputKey(g, k)) = GetOutput(g, k)]_vars

\* One step holds three outputs, under no id and under two ids, the last
\* call having stored under an id.
C7_Witness ==
  /\ GetOutput("connectToLitNodeClient", Absent) # Undefined
  /\ GetOutput("connectToLitNodeClient", <<"a">>) # Undefined
  /\ GetOutput("connectToLitNodeClient", <<"b">>) # Undefined
  /\ lastResult.status = "resolved" /\ Truthy(lastResult.p.outputId)

\* ----------------------------------------------------------------- C8
\* C8: a custom_auth createAccessToken call with a pkpPublicKey, resources,
\* jsParams and one of code or ipfsCid but no creditsDelegationToken, made
\* after a successful connectToLitNodeClient and not failed by the SDK,
\* resolves, asked for session signatures without capabilityAuthSigs, and its
\* output is stored.
C8_DelegationTokenOptional ==
  (/\ lastResult.fn = "createAccessToken"
   /\ lastResult.p.type = "custom_auth"
   /\ lastResult.p.pkpPublicKey # ""
   /\ Len(lastResult.p.resources) >= 1
   /\ \A i \in DOMAIN lastResult.p.resources : lastResult.p.resources[i] \in ResourceTypes
   /\ lastResult.p.jsParams
   /\ Truthy(lastResult.p.code) # Truthy(lastResult.p.ipfsCid)
   /\ ~lastResult.p.creditsDelegationToken
   /\ litNodeClient \in connected /\ litNodeClient < lastResult.id
   /\ lastResult.cause # SdkError)
  => /\ lastResult.status = "resolved"
     /\ sdk.by = lastResult.id /\ ~sdk.caps
     /\ GetOutput("createAccessToken", lastResult.p.outputId) = lastResult.output

\* ----------------------------------------------------------------- C9
RECURSIVE SumTo(_, _)
SumTo(times, n) == IF n = 0 THEN 0 ELSE SumTo(times, n - 1) + times[n]

C10_OverlappingCallsSafe ==
  /\ (sdk.on \in {"litNodeClient", "litContracts"} /\ sdk.method # "connect") => sdk.ready
  /\ \A key \in DOMAIN outputs :
       outputs[key].kind = "client" => outputs[key].id \in connected

=============================================================================
